---- MODULE Spec2Model ----
(***************************************************************************)
(* Conversation routing engine of the AIMhi-Y chatbot:                     *)
(*   core/fsm.py     ChatBotFSM, the forward-only dialogue state machine   *)
(*   core/router.py  route_message and its per-state handlers              *)
(*                                                                         *)
(* Reading notes on the source.                                            *)
(*  - router.py writes `save_response(fsm_data(message)`; it is read as    *)
(*    the call save_response(fsm_data, message).                           *)
(*  - router.py imports a functional API from core.fsm (create_fsm,        *)
(*    get_state, advance_state, should_force_advance, ...) that fsm.py     *)
(*    does not define; each is modelled as the ChatBotFSM member of the    *)
(*    matching role, applied in place to the cached FSM.                   *)
(*  - _handle_goals_state refers to a name `fsm` that router.py never      *)
(*    binds, so evaluating it raises NameError, which route_message's      *)
(*    catch-all turns into the generic fallback reply.                     *)
(*  - the classifiers are collaborators behind an interface: the label     *)
(*    they return for a message is an input of the model.                  *)
(***************************************************************************)
EXTENDS Integers, Sequences, FiniteSets, TLC

VARIABLES fsm_cache, last, threads, session_cache, nlp, remote

vars == <<fsm_cache, last, threads, session_cache, nlp, remote>>

----------------------------------------------------------------------------
(* Bounded inputs *)

Sessions == {"s1"}

\* message texts; StrippedLen is len(message.strip())
Messages == {"Hi", "My family", "I want to kill myself"}

StrippedLen(m) == IF m = "Hi" THEN 2 ELSE IF m = "My family" THEN 9 ELSE 21

\* labels classify_intent can return (after its intent_mapping); of the
\* thirteen, the ones the handlers and the properties tell apart
Intents == {"unclear", "strengths", "negation", "affirmation"}

\* labels analyze_sentiment can return (of the three, two)
Sentiments == {"positive", "negative"}

\* which collaborator raises during the call, if any
Failures == {"none", "analytics", "nlp", "update_state"}

\* cap of the turn counter kept in `last`
MaxStreak == 3

----------------------------------------------------------------------------
(* core/fsm.py : ChatBotFSM *)

states == <<"welcome", "support_people", "strengths", "worries", "goals",
            "summary", "llm_conversation">>

StateSet == {states[i] : i \in 1..Len(states)}

QuestionSteps == {"support_people", "strengths", "worries", "goals"}

Pos(st) == CHOOSE i \in 1..Len(states) : states[i] = st

None == [sentinel |-> FALSE, text |-> "<None>"]

\* the message as typed
Verbatim(m) == [sentinel |-> FALSE, text |-> m]

\* f"Unclear: {message}"
Unclear(m) == [sentinel |-> TRUE, text |-> m]

ChatBotFSM(initial_state) ==
    [state     |-> initial_state,
     responses |-> [q \in QuestionSteps |-> None],
     attempts  |-> [q \in QuestionSteps |-> 0]]

\* Machine(..., ignore_invalid_triggers=True): a trigger with no transition
\* from the current state returns without raising
ignore_invalid_triggers == TRUE

\* variant: next_step leads from goals straight to llm_conversation
transitions_goals_to_llm ==
    {<<"next_step", "welcome", "support_people">>,
     <<"next_step", "support_people", "strengths">>,
     <<"next_step", "strengths", "worries">>,
     <<"next_step", "worries", "goals">>,
     <<"next_step", "goals", "llm_conversation">>,
     <<"start_llm_chat", "summary", "llm_conversation">>}

\* add_transition(trigger, source, dest)
transitions ==
    {<<"next_step", "welcome", "support_people">>,
     <<"next_step", "support_people", "strengths">>,
     <<"next_step", "strengths", "worries">>,
     <<"next_step", "worries", "goals">>,
     <<"next_step", "goals", "summary">>,
     <<"start_llm_chat", "summary", "llm_conversation">>}

Triggers == {"next_step", "start_llm_chat"}

HasEdge(trigger, st) == \E t \in transitions : t[1] = trigger /\ t[2] = st

Dest(trigger, st) ==
    IF HasEdge(trigger, st)
    THEN (CHOOSE t \in transitions : t[1] = trigger /\ t[2] = st)[3]
    ELSE st

\* MachineError, raised for an invalid trigger unless invalid triggers are ignored
TriggerRaises(trigger, st) == ~HasEdge(trigger, st) /\ ~ignore_invalid_triggers

fire(f, trigger) == [f EXCEPT !.state = Dest(trigger, f.state)]

next_step(f) == fire(f, "next_step")

start_llm_chat(f) == fire(f, "start_llm_chat")

\* save_response that writes under the step the FSM moves to next
save_response_under_next_step(f, response) ==
    IF Dest("next_step", f.state) \in DOMAIN f.responses
    THEN [f EXCEPT !.responses[Dest("next_step", f.state)] = response]
    ELSE f

save_response(f, response) ==
    IF f.state \in DOMAIN f.responses
    THEN [f EXCEPT !.responses[f.state] = response]
    ELSE f

increment_attempt(f) ==
    IF f.state \in DOMAIN f.attempts
    THEN [f EXCEPT !.attempts[f.state] = @ + 1]
    ELSE f

get_attempt_count(f) ==
    IF f.state \in DOMAIN f.attempts THEN f.attempts[f.state] ELSE 0

should_advance(f) == get_attempt_count(f) >= 2

reset_attempts(f) ==
    IF f.state \in DOMAIN f.attempts
    THEN [f EXCEPT !.attempts[f.state] = 0]
    ELSE f

\* variant: summary, whose only way on is start_llm_chat, counts as unable
\* to advance
can_advance_not_from_summary(f) ==
    IF f.state \in {"llm_conversation"} THEN FALSE
    ELSE IF f.state = "summary" THEN FALSE
    ELSE TRUE

can_advance(f) ==
    IF f.state \in {"llm_conversation"} THEN FALSE
    ELSE IF f.state = "summary" THEN TRUE
    ELSE TRUE

\* one call of the method: what it returns and the object it leaves behind;
\* the body reads self.state and assigns nothing
can_advance_call(f) == [result |-> can_advance(f), fsm |-> f]

----------------------------------------------------------------------------
(* functional API that router.py imports from core.fsm *)

create_fsm(session_id, initial_state) == ChatBotFSM(initial_state)

get_state(f) == f.state

advance_state(f) == next_step(f)

should_force_advance(f) == should_advance(f)

----------------------------------------------------------------------------
(* core/router.py : collaborators *)

\* LLM_ENABLED = os.getenv('LLM_ENABLED', 'false').lower() == 'true'
LLM_ENABLED == FALSE

\* nlp/risk_detector.py : the fixed crisis-resources message
get_crisis_resources == <<"crisis_resources">>

\* what a state handler hands back: the FSM as it left it (the cached object
\* is mutated in place), debug_info['response_source'], the reply category,
\* the states passed to update_session_state, and whether it raised
Handled(f, source, reply, updates) ==
    [fsm |-> f, response_source |-> source, reply |-> reply,
     updates |-> updates, raised |-> FALSE]

Raised(f, source, updates) ==
    [fsm |-> f, response_source |-> source, reply |-> <<>>,
     updates |-> updates, raised |-> TRUE]

\* _handle_welcome_state that reports the state to the store on every message
_handle_welcome_state_always_updates(f, message, intent, sentiment, fail) ==
    IF StrippedLen(message) > 3 /\ can_advance(f)
    THEN Handled(advance_state(f), "welcome_advance",
                 <<"welcome", "ready_response", sentiment>>,
                 <<get_state(advance_state(f))>>)
    ELSE Handled(f, "welcome_greeting", <<"welcome", "greeting", sentiment>>,
                 <<get_state(f)>>)

\* _handle_welcome_state that moves on only for a user in a positive mood
_handle_welcome_state_by_sentiment(f, message, intent, sentiment, fail) ==
    IF StrippedLen(message) > 3 /\ can_advance(f) /\ sentiment = "positive"
    THEN Handled(advance_state(f), "welcome_advance",
                 <<"welcome", "ready_response", sentiment>>,
                 <<get_state(advance_state(f))>>)
    ELSE Handled(f, "welcome_greeting", <<"welcome", "greeting", sentiment>>, <<>>)

_handle_welcome_state(f, message, intent, sentiment, fail) ==
    IF StrippedLen(message) > 3
    THEN IF can_advance(f)
         THEN LET g == advance_state(f) IN
              IF fail = "update_state"
              THEN Raised(g, "unhandled", <<>>)
              ELSE Handled(g, "welcome_advance",
                           <<"welcome", "ready_response", sentiment>>,
                           <<get_state(g)>>)
         ELSE Handled(f, "unhandled", <<"welcome", "greeting", sentiment>>, <<>>)
    ELSE Handled(f, "welcome_greeting", <<"welcome", "greeting", sentiment>>, <<>>)

_handle_support_people_state(f, message, intent, sentiment, fail) ==
    IF intent # "unclear"
    THEN LET g == reset_attempts(save_response(f, Verbatim(message))) IN
         IF can_advance(g)
         THEN LET h == advance_state(g) IN
              IF fail = "update_state"
              THEN Raised(h, "unhandled", <<>>)
              ELSE Handled(h, "support_people_advance",
                           <<"support_people", "acknowledgment", sentiment,
                             "prompt", "strengths">>,
                           <<get_state(h)>>)
         ELSE Handled(g, "unhandled",
                      <<"support_people", "acknowledgment", sentiment>>, <<>>)
    ELSE LET g == increment_attempt(f) IN
         IF should_force_advance(g)
         THEN LET h == reset_attempts(save_response(g, Unclear(message))) IN
              IF can_advance(h)
              THEN LET k == advance_state(h) IN
                   IF fail = "update_state"
                   THEN Raised(k, "unhandled", <<>>)
                   ELSE Handled(k, "support_people_force_advance",
                                <<"support_people", "transition_unclear",
                                  "prompt", "strengths">>,
                                <<get_state(k)>>)
              ELSE Handled(h, "unhandled",
                           <<"support_people", "transition_unclear">>, <<>>)
         ELSE Handled(g, "support_people_clarify",
                      <<"support_people", "clarify">>, <<>>)

_handle_strengths_state(f, message, intent, sentiment, fail) ==
    IF intent # "unclear"
    THEN LET g == reset_attempts(save_response(f, Verbatim(message))) IN
         IF can_advance(g)
         THEN LET h == advance_state(g) IN
              IF fail = "update_state"
              THEN Raised(h, "unhandled", <<>>)
              ELSE Handled(h, "strengths_advance",
                           <<"strengths", "acknowledgment", sentiment,
                             "prompt", "worries">>,
                           <<get_state(h)>>)
         ELSE Handled(g, "unhandled",
                      <<"strengths", "acknowledgment", sentiment>>, <<>>)
    ELSE LET g == increment_attempt(f) IN
         IF should_force_advance(g)
         THEN LET h == reset_attempts(save_response(g, Unclear(message))) IN
              IF can_advance(h)
              THEN LET k == advance_state(h) IN
                   IF fail = "update_state"
                   THEN Raised(k, "unhandled", <<>>)
                   ELSE Handled(k, "strengths_force_advance",
                                <<"strengths", "transition_advance",
                                  "prompt", "worries">>,
                                <<get_state(k)>>)
              ELSE Handled(h, "unhandled",
                           <<"strengths", "transition_advance">>, <<>>)
         ELSE Handled(g, "strengths_clarify", <<"strengths", "clarify">>, <<>>)

_handle_worries_state(f, message, intent, sentiment, fail) ==
    IF intent # "unclear"
    THEN LET g == reset_attempts(save_response(f, Verbatim(message))) IN
         IF can_advance(g)
         THEN LET h == advance_state(g) IN
              IF fail = "update_state"
              THEN Raised(h, "unhandled", <<>>)
              ELSE Handled(h, "worries_advance",
                           <<"worries", "acknowledgment", sentiment,
                             "prompt", "goals">>,
                           <<get_state(h)>>)
         ELSE Handled(g, "unhandled",
                      <<"worries", "acknowledgment", sentiment>>, <<>>)
    ELSE LET g == increment_attempt(f) IN
         IF should_force_advance(g)
         THEN LET h == reset_attempts(save_response(g, Unclear(message))) IN
              IF can_advance(h)
              THEN LET k == advance_state(h) IN
                   IF fail = "update_state"
                   THEN Raised(k, "unhandled", <<>>)
                   ELSE Handled(k, "worries_force_advance",
                                <<"worries", "transition_advance",
                                  "prompt", "goals">>,
                                <<get_state(k)>>)
              ELSE Handled(h, "unhandled",
                           <<"worries", "transition_advance">>, <<>>)
         ELSE Handled(g, "worries_clarify", <<"worries", "clarify">>, <<>>)

\* `fsm` is not a name of router.py: `fsm.can_advance()` raises NameError
\* after the answer has been saved and the counter reset
_handle_goals_state(f, message, intent, sentiment, fail) ==
    IF intent # "unclear"
    THEN LET g == reset_attempts(save_response(f, Verbatim(message))) IN
         Raised(g, "unhandled", <<>>)
    ELSE LET g == increment_attempt(f) IN
         IF should_force_advance(g)
         THEN LET h == reset_attempts(save_response(g, Unclear(message))) IN
              Raised(h, "unhandled", <<>>)
         ELSE Handled(g, "goals_clarify", <<"goals", "clarify">>, <<>>)

_handle_fallback_state(f, message, intent, sentiment, fail) ==
    Handled(f, "unhandled", <<"fallback", "general">>, <<>>)

\* _handle_fsm_conversation without the try/except around the classifiers
_handle_fsm_conversation_unguarded_nlp(f, message, intent, sentiment, fail) ==
    LET current_state == get_state(f) IN
    IF fail = "nlp"
    THEN Raised(f, "unhandled", <<>>)
    ELSE LET r == CASE current_state = "welcome" ->
                         _handle_welcome_state(f, message, intent, sentiment, fail)
                    [] current_state = "support_people" ->
                         _handle_support_people_state(f, message, intent, sentiment, fail)
                    [] current_state = "strengths" ->
                         _handle_strengths_state(f, message, intent, sentiment, fail)
                    [] current_state = "worries" ->
                         _handle_worries_state(f, message, intent, sentiment, fail)
                    [] current_state = "goals" ->
                         _handle_goals_state(f, message, intent, sentiment, fail)
                    [] OTHER ->
                         _handle_fallback_state(f, message, intent, sentiment, fail)
             new_state == get_state(r.fsm)
         IN  IF ~r.raised /\ new_state # current_state
             THEN [r EXCEPT !.updates = Append(@, new_state)]
             ELSE r

_handle_fsm_conversation(f, message, intent, sentiment, fail) ==
    LET current_state == get_state(f) IN
    IF fail = "nlp"
    THEN Handled(f, "unhandled", <<"fallback", "clarification">>, <<>>)
    ELSE LET r == CASE current_state = "welcome" ->
                         _handle_welcome_state(f, message, intent, sentiment, fail)
                    [] current_state = "support_people" ->
                         _handle_support_people_state(f, message, intent, sentiment, fail)
                    [] current_state = "strengths" ->
                         _handle_strengths_state(f, message, intent, sentiment, fail)
                    [] current_state = "worries" ->
                         _handle_worries_state(f, message, intent, sentiment, fail)
                    [] current_state = "goals" ->
                         _handle_goals_state(f, message, intent, sentiment, fail)
                    [] OTHER ->
                         _handle_fallback_state(f, message, intent, sentiment, fail)
             new_state == get_state(r.fsm)
         IN  IF ~r.raised /\ new_state # current_state
             THEN [r EXCEPT !.updates = Append(@, new_state)]
             ELSE r

\* _handle_llm_conversation that starts the open conversation on a fresh FSM
_handle_llm_conversation_fresh_fsm(f, message, fail) ==
    Handled(ChatBotFSM("llm_conversation"), "llm_handoff_ongoing",
            <<"llm_unavailable">>, <<>>)

_handle_llm_conversation(f, message, fail) ==
    IF fail = "analytics"
    THEN Raised(f, "llm_handoff_ongoing", <<>>)
    ELSE IF ~LLM_ENABLED
         THEN Handled(f, "llm_handoff_ongoing", <<"llm_unavailable">>, <<>>)
         ELSE Handled(f, "llm_handoff_ongoing", <<"llm_not_implemented">>, <<>>)

----------------------------------------------------------------------------
(* core/router.py : route_message *)

\* nlp/risk_detector.py : the verdict on the normalized message (the phrase
\* lists live in config/risk_phrases.json; the one risk text of the model
\* stands for every text they flag)
contains_risk(message) == message = "I want to kill myself"

\* get_or_create_fsm with a cache that holds one session at a time
get_or_create_fsm_single_slot(cache, session_id) ==
    IF session_id \in DOMAIN cache THEN cache
    ELSE [s \in {session_id} |-> create_fsm(session_id, "welcome")]

get_or_create_fsm(cache, session_id) ==
    IF session_id \notin DOMAIN cache
    THEN [t \in DOMAIN cache \cup {session_id} |->
             IF t = session_id THEN create_fsm(session_id, "welcome") ELSE cache[t]]
    ELSE cache

\* the outcome of one call: the cache afterwards, the reply, debug_info, and
\* what was called on the way
Outcome(cache, reply, risk_detected, before, after, source, errors, intent_called, sentiment_called, events, updates) ==
    [cache |-> cache, reply |-> reply, risk_detected |-> risk_detected,
     fsm_state_before |-> before, fsm_state_after |-> after,
     response_source |-> source, errors |-> errors,
     intent_called |-> intent_called, sentiment_called |-> sentiment_called,
     events |-> events, updates |-> updates]

\* variant: the risk reply is sent, but the message is also run through the
\* state handlers
route_message_risk_then_handlers(cache, session_id, message, intent, sentiment, fail) ==
    LET c == get_or_create_fsm(cache, session_id)
        r == _handle_fsm_conversation(c[session_id], message, intent, sentiment, fail)
    IN  Outcome([c EXCEPT ![session_id] = r.fsm],
                get_crisis_resources, TRUE, "unknown", "unknown",
                "crisis_resources", {}, FALSE, FALSE, {"risk_triggered"}, <<>>)

\* Step 2 of route_message, taken when contains_risk is true
route_message_risk(cache, session_id, message, intent, sentiment, fail) ==
    IF fail = "analytics"
    THEN Outcome(cache, <<"fallback", "general">>, TRUE, "unknown", "unknown",
                 "crisis_resources", {"router_fatal_error"},
                 FALSE, FALSE, {}, <<>>)
    ELSE Outcome(cache, get_crisis_resources, TRUE, "unknown", "unknown",
                 "crisis_resources", {}, FALSE, FALSE, {"risk_triggered"}, <<>>)

\* Steps 3 to 5 of route_message
route_message_branch(cache, session_id, message, intent, sentiment, fail) ==
    LET c == get_or_create_fsm(cache, session_id)
        f == c[session_id]
        before == get_state(f)
        llm == before \in {"llm_conversation"}
        r == IF llm
             THEN _handle_llm_conversation(f, message, fail)
             ELSE _handle_fsm_conversation(f, message, intent, sentiment, fail)
        errs == (IF r.raised THEN {"router_fatal_error"} ELSE {})
                \cup (IF ~llm /\ fail = "nlp" THEN {"nlp_pipeline_error"} ELSE {})
                \cup (IF llm /\ ~r.raised /\ ~LLM_ENABLED
                      THEN {"llm_not_available"} ELSE {})
    IN  Outcome([c EXCEPT ![session_id] = r.fsm],
                IF r.raised THEN <<"fallback", "general">> ELSE r.reply,
                FALSE, before,
                IF r.raised THEN "unknown" ELSE get_state(r.fsm),
                r.response_source, errs,
                ~llm, ~llm /\ fail # "nlp",
                IF llm /\ ~r.raised THEN {"llm_turn_completed"} ELSE {},
                r.updates)

\* variant: the risk check is skipped
route_message_without_risk_check(cache, session_id, message, intent, sentiment, fail) ==
    route_message_branch(cache, session_id, message, intent, sentiment, fail)

route_message(cache, session_id, message, intent, sentiment, fail) ==
    IF contains_risk(message)
    THEN route_message_risk(cache, session_id, message, intent, sentiment, fail)
    ELSE route_message_branch(cache, session_id, message, intent, sentiment, fail)

----------------------------------------------------------------------------
(* State *)

\* no classifier has been called yet
NoClassification == [kind |-> "none"]

\* no request to a remote backend is in flight
NoRemoteCall == [phase |-> "idle"]

NoCall ==
    [kind |-> "none", session_id |-> "", message |-> "", intent |-> "",
     fail |-> "none", streak |-> 0,
     out |-> Outcome(<<>>, <<>>, FALSE, "unknown", "unknown", "unhandled", {},
                     FALSE, FALSE, {}, <<>>)]

\* fsm_cache is router.py's _fsm_cache; `last` records the latest call: its
\* inputs, its outcome, and how many non-risk messages in a row the session
\* has now received at one and the same step
Init ==
    /\ nlp = NoClassification
    /\ remote = NoRemoteCall
    /\ fsm_cache = <<>>
    /\ last = NoCall
    /\ threads = <<>>
    /\ session_cache = <<>>

StateOf(cache, s) == IF s \in DOMAIN cache THEN cache[s].state ELSE "welcome"

Streak(s, message, out) ==
    IF contains_risk(message) THEN 0
    ELSE IF /\ last.kind = "route"
            /\ last.session_id = s
            /\ last.streak > 0
            /\ StateOf(out.cache, s) = StateOf(fsm_cache, s)
         THEN IF last.streak < MaxStreak THEN last.streak + 1 ELSE MaxStreak
         ELSE IF StateOf(out.cache, s) = StateOf(fsm_cache, s) THEN 1 ELSE 0

Route(s, m, intent, sentiment, fail) ==
    LET out == route_message(fsm_cache, s, m, intent, sentiment, fail) IN
    /\ fsm_cache' = out.cache
    /\ last' = [kind |-> "route", session_id |-> s, message |-> m,
                intent |-> intent, fail |-> fail,
                streak |-> Streak(s, m, out),
                out |-> [out EXCEPT !.cache = <<>>]]
    /\ UNCHANGED <<threads, session_cache, nlp, remote>>

\* a message arrives and is routed; every collaborator answers
RouteMessage ==
    \E s \in Sessions, m \in Messages, intent \in Intents, sentiment \in Sentiments :
        Route(s, m, intent, sentiment, "none")

Next == RouteMessage

Spec == Init /\ [][Next]_vars

\* a message arrives and one of the collaborators raises while it is routed
RouteMessageFailing ==
    \E s \in Sessions, m \in Messages, intent \in Intents, sentiment \in Sentiments :
        \E fail \in Failures \ {"none"} :
            Route(s, m, intent, sentiment, fail)

NextFail == RouteMessage \/ RouteMessageFailing

\* the router with collaborators that may raise
SpecFail == Init /\ [][NextFail]_vars

\* a trigger fired on a session's ChatBotFSM by its holder
Trigger(s, trigger) ==
    /\ s \in DOMAIN fsm_cache
    /\ fsm_cache' = [fsm_cache EXCEPT ![s] = fire(@, trigger)]
    /\ last' = [NoCall EXCEPT !.kind = "trigger", !.session_id = s,
                              !.message = trigger,
                              !.out.errors =
                                  IF TriggerRaises(trigger, fsm_cache[s].state)
                                  THEN {"MachineError"} ELSE {}]
    /\ UNCHANGED <<threads, session_cache, nlp, remote>>

NextStepTrigger == \E s \in Sessions : Trigger(s, "next_step")

StartLlmChatTrigger == \E s \in Sessions : Trigger(s, "start_llm_chat")

NextTriggers == RouteMessage \/ NextStepTrigger \/ StartLlmChatTrigger

\* routed messages interleaved with FSM triggers
SpecTriggers == Init /\ [][NextTriggers]_vars

\* Python's str() of a bool
Str(b) == IF b THEN "True" ELSE "False"

\* some code asks a cached FSM whether it can advance
CanAdvance(s) ==
    /\ s \in DOMAIN fsm_cache
    /\ LET r == can_advance_call(fsm_cache[s]) IN
           /\ fsm_cache' = [fsm_cache EXCEPT ![s] = r.fsm]
           /\ last' = [NoCall EXCEPT !.kind = "can_advance", !.session_id = s,
                                     !.message = Str(r.result)]
    /\ UNCHANGED <<threads, session_cache, nlp, remote>>

CanAdvanceCall == \E s \in Sessions : CanAdvance(s)

\* an answer to the current question arrives and is routed
RouteAnswer ==
    \E s \in Sessions, intent \in Intents :
        Route(s, "My family", intent, "positive", "none")

NextCanAdvance ==
    RouteAnswer \/ NextStepTrigger \/ StartLlmChatTrigger \/ CanAdvanceCall

\* answers, FSM triggers and can_advance calls interleaved
SpecCanAdvance == Init /\ [][NextCanAdvance]_vars

----------------------------------------------------------------------------
(* Two calls of route_message in flight for one session.                   *)
(* router.py holds no lock: _fsm_cache hands both calls the same FSM       *)
(* object, and another thread can run between any two of the calls a       *)
(* handler makes (save_response, reset_attempts, increment_attempt,        *)
(* should_force_advance, advance_state). Each of those calls is one step.  *)

Threads == {"t1", "t2"}

ConcSession == "s1"

\* the message each thread routes
ThreadMessage(t) == IF t = "t1" THEN "My family" ELSE "Hi"

\* the cache after a greeting and `n` answered messages, the state the two
\* calls start from
RECURSIVE Answered(_)
Answered(n) ==
    IF n = 0
    THEN route_message(<<>>, ConcSession, "Hi", "unclear", "positive", "none").cache
    ELSE route_message(Answered(n - 1), ConcSession, "My family", "strengths",
                       "positive", "none").cache

\* the longest answered prefix a pair of calls starts from
MaxAnswered == 4

Idle == [pc |-> "idle", intent |-> "", handler |-> ""]

InitConc ==
    /\ nlp = NoClassification
    /\ remote = NoRemoteCall
    /\ \E n \in 0..MaxAnswered : fsm_cache = Answered(n)
    /\ last = NoCall
    /\ threads = [proc |-> [t \in Threads |-> Idle], order |-> <<>>,
                  start |-> fsm_cache]
    /\ session_cache = <<>>

Fsm == fsm_cache[ConcSession]

SetFsm(f) == fsm_cache' = [fsm_cache EXCEPT ![ConcSession] = f]

Goto(t, pc) ==
    threads' = [threads EXCEPT !.proc[t].pc = pc]

\* route_message is entered (receipt); the classifier's label for the
\* message is fixed here
CallStart(t) ==
    /\ threads.proc[t].pc = "idle"
    /\ \E intent \in Intents :
           threads' = [threads EXCEPT
                          !.proc[t] = [pc |-> "enter", intent |-> intent,
                                       handler |-> ""],
                          !.order = Append(@, t)]
    /\ UNCHANGED <<fsm_cache, last, session_cache, nlp, remote>>

\* router.py:137-151, 172-184: get the FSM, pick the branch
Enter(t) ==
    /\ threads.proc[t].pc = "enter"
    /\ IF get_state(Fsm) \in {"llm_conversation"}
       THEN Goto(t, "done")
       ELSE Goto(t, "dispatch")
    /\ UNCHANGED <<fsm_cache, last, session_cache, nlp, remote>>

\* router.py:187-195: the handler is looked up by the state read now
Dispatch(t) ==
    /\ threads.proc[t].pc = "dispatch"
    /\ LET st == get_state(Fsm)
           intent == threads.proc[t].intent
           pc == IF st = "welcome"
                 THEN IF StrippedLen(ThreadMessage(t)) > 3
                      THEN "welcome_advance" ELSE "done"
                 ELSE IF st \in QuestionSteps
                      THEN IF intent # "unclear" THEN "clear_save" ELSE "increment"
                      ELSE "done"
       IN  threads' = [threads EXCEPT !.proc[t].pc = pc, !.proc[t].handler = st]
    /\ UNCHANGED <<fsm_cache, last, session_cache, nlp, remote>>

\* router.py:250-251
WelcomeAdvance(t) ==
    /\ threads.proc[t].pc = "welcome_advance"
    /\ SetFsm(IF can_advance(Fsm) THEN advance_state(Fsm) ELSE Fsm)
    /\ Goto(t, "done")
    /\ UNCHANGED <<last, session_cache, nlp, remote>>

\* router.py:270 (314, 358, 402)
ClearSave(t) ==
    /\ threads.proc[t].pc = "clear_save"
    /\ SetFsm(save_response(Fsm, Verbatim(ThreadMessage(t))))
    /\ Goto(t, "clear_reset")
    /\ UNCHANGED <<last, session_cache, nlp, remote>>

\* router.py:271 (315, 359, 403); the goals handler then raises NameError
ClearReset(t) ==
    /\ threads.proc[t].pc = "clear_reset"
    /\ SetFsm(reset_attempts(Fsm))
    /\ Goto(t, IF threads.proc[t].handler = "goals" THEN "done" ELSE "advance")
    /\ UNCHANGED <<last, session_cache, nlp, remote>>

\* router.py:285 (329, 373, 420)
Increment(t) ==
    /\ threads.proc[t].pc = "increment"
    /\ SetFsm(increment_attempt(Fsm))
    /\ Goto(t, "should_force")
    /\ UNCHANGED <<last, session_cache, nlp, remote>>

\* router.py:288 (332, 376, 423)
ShouldForce(t) ==
    /\ threads.proc[t].pc = "should_force"
    /\ Goto(t, IF should_force_advance(Fsm) THEN "force_save" ELSE "done")
    /\ UNCHANGED <<fsm_cache, last, session_cache, nlp, remote>>

\* router.py:290 (334, 378, 425)
ForceSave(t) ==
    /\ threads.proc[t].pc = "force_save"
    /\ SetFsm(save_response(Fsm, Unclear(ThreadMessage(t))))
    /\ Goto(t, "force_reset")
    /\ UNCHANGED <<last, session_cache, nlp, remote>>

\* router.py:291 (335, 379, 426); the goals handler then raises NameError
ForceReset(t) ==
    /\ threads.proc[t].pc = "force_reset"
    /\ SetFsm(reset_attempts(Fsm))
    /\ Goto(t, IF threads.proc[t].handler = "goals" THEN "done" ELSE "advance")
    /\ UNCHANGED <<last, session_cache, nlp, remote>>

\* router.py:273-274, 293-294 (and the like in the other handlers)
Advance(t) ==
    /\ threads.proc[t].pc = "advance"
    /\ SetFsm(IF can_advance(Fsm) THEN advance_state(Fsm) ELSE Fsm)
    /\ Goto(t, "done")
    /\ UNCHANGED <<last, session_cache, nlp, remote>>

NextConc ==
    \E t \in Threads :
        \/ CallStart(t) \/ Enter(t) \/ Dispatch(t) \/ WelcomeAdvance(t)
        \/ ClearSave(t) \/ ClearReset(t) \/ Increment(t) \/ ShouldForce(t)
        \/ ForceSave(t) \/ ForceReset(t) \/ Advance(t)

SpecConc == InitConc /\ [][NextConc]_vars

----------------------------------------------------------------------------
(* Messages of two sessions, routed in any order.                          *)

TwoSessions == {"s1", "s2"}

RouteMessageTwoSessions ==
    \E s \in TwoSessions, m \in {"My family", "I want to kill myself"},
       intent \in {"unclear", "strengths"} :
        Route(s, m, intent, "positive", "none")

NextTwoSessions == RouteMessageTwoSessions

SpecTwoSessions == Init /\ [][NextTwoSessions]_vars

----------------------------------------------------------------------------
(* core/session.py: the TTL cache of sessions and get_session.             *)
(* A session is the dict {'fsm': ChatBotFSM, 'session_id': ...}; callers   *)
(* keep the object get_session returned, so FSM objects live in a heap and *)
(* the cache maps a session id to an object.                               *)

\* SessionCache(ttl_minutes=30), in minutes
ttl == 30

\* `if len(self._sessions) > 1000`
CleanupSize == 1000

\* the clock moves in steps of TickMinutes up to MaxNow
TickMinutes == 15

MaxNow == 60

\* FSM objects created in one run
MaxObjects == 3

Callers == {"c1", "c2"}

SessionIds == {"s1"}

NoObject == 0

Without(f, k) == [x \in DOMAIN f \ {k} |-> f[x]]

With(f, k, v) == [x \in DOMAIN f \cup {k} |-> IF x = k THEN v ELSE f[x]]

SessionCache_remove(c, session_id) ==
    [c EXCEPT !._sessions = Without(@, session_id),
              !._last_access = Without(@, session_id)]

_cleanup_expired(c) ==
    LET expired == {sid \in DOMAIN c._last_access :
                        (c.now - c._last_access[sid]) >= ttl}
    IN  [c EXCEPT !._sessions = [x \in DOMAIN @ \ expired |-> @[x]],
                  !._last_access = [x \in DOMAIN @ \ expired |-> @[x]]]

\* variant: an entry last accessed exactly ttl ago still counts as live
SessionCache_get_ttl_inclusive(c, session_id) ==
    IF session_id \in DOMAIN c._sessions
    THEN IF session_id \in DOMAIN c._last_access
            /\ (c.now - c._last_access[session_id]) <= ttl
         THEN [c |-> [c EXCEPT !._last_access[session_id] = c.now],
               session |-> c._sessions[session_id]]
         ELSE [c |-> SessionCache_remove(c, session_id), session |-> NoObject]
    ELSE [c |-> c, session |-> NoObject]

\* returns the cache and the session found (NoObject for None)
SessionCache_get(c, session_id) ==
    IF session_id \in DOMAIN c._sessions
    THEN IF session_id \in DOMAIN c._last_access
            /\ (c.now - c._last_access[session_id]) < ttl
         THEN [c |-> [c EXCEPT !._last_access[session_id] = c.now],
               session |-> c._sessions[session_id]]
         ELSE [c |-> SessionCache_remove(c, session_id), session |-> NoObject]
    ELSE [c |-> c, session |-> NoObject]

SessionCache_set(c, session_id, obj) ==
    LET c1 == [c EXCEPT !._sessions = With(@, session_id, obj),
                        !._last_access = With(@, session_id, c.now)]
    IN  IF Cardinality(DOMAIN c1._sessions) > CleanupSize
        THEN _cleanup_expired(c1) ELSE c1

\* database.repository_v2: INSERT OR IGNORE / SELECT on the sessions table
create_session(c, session_id, fsm_state) ==
    IF session_id \in DOMAIN c.db THEN c
    ELSE [c EXCEPT !.db = With(@, session_id, fsm_state)]

get_session_data(c, session_id) ==
    IF session_id \in DOMAIN c.db THEN c.db[session_id] ELSE "<None>"

\* returns the cache (with the heap) and the session object
get_session(c, session_id) ==
    LET hit == SessionCache_get(c, session_id)
        c1 == hit.c
        obj == Len(c1.heap) + 1
        session_data == get_session_data(c1, session_id)
        fsm == IF c1.DB_AVAILABLE /\ session_data # "<None>"
               THEN ChatBotFSM(session_data)
               ELSE ChatBotFSM("welcome")
        c2 == IF c1.DB_AVAILABLE /\ session_data = "<None>"
              THEN create_session(c1, session_id, "welcome") ELSE c1
        c3 == [c2 EXCEPT !.heap = Append(@, fsm)]
    IN  IF hit.session # NoObject
        THEN [c |-> c1, session |-> hit.session]
        ELSE [c |-> SessionCache_set(c3, session_id, obj), session |-> obj]

NoCaller == [session_id |-> "", session |-> NoObject]

\* the import of database.repository_v2 succeeds or not
InitSession ==
    /\ nlp = NoClassification
    /\ remote = NoRemoteCall
    /\ fsm_cache = <<>>
    /\ last = NoCall
    /\ threads = <<>>
    /\ \E db_available \in BOOLEAN :
           session_cache = [_sessions |-> <<>>, _last_access |-> <<>>,
                            now |-> 0, heap |-> <<>>, db |-> <<>>,
                            DB_AVAILABLE |-> db_available,
                            callers |-> [k \in Callers |-> NoCaller],
                            observed |-> <<>>]

\* time passes
Tick ==
    /\ session_cache.now < MaxNow
    /\ session_cache' = [session_cache EXCEPT !.now = @ + TickMinutes]
    /\ UNCHANGED <<fsm_cache, last, threads, nlp, remote>>

\* a message for the session arrives: its handling gets the session
BeginCall(k, session_id) ==
    /\ session_cache.callers[k] = NoCaller
    /\ LET got == get_session(session_cache, session_id)
       IN  /\ Len(got.c.heap) <= MaxObjects
           /\ session_cache' =
                  [got.c EXCEPT
                      !.callers[k] = [session_id |-> session_id,
                                      session |-> got.session],
                      !.observed = With(@, session_id,
                                        got.c.heap[got.session].state)]
    /\ UNCHANGED <<fsm_cache, last, threads, nlp, remote>>

\* the handling takes the message as the answer of the step and advances
\* the FSM of the session it holds (nothing to save at welcome)
CallAnswer(k) ==
    /\ session_cache.callers[k] # NoCaller
    /\ LET held == session_cache.callers[k]
           saved == reset_attempts(save_response(session_cache.heap[held.session],
                                                 Verbatim("My family")))
           f == IF can_advance(saved) THEN next_step(saved) ELSE saved
       IN  session_cache' =
               [session_cache EXCEPT
                   !.heap[held.session] = f,
                   !.observed = With(@, held.session_id, f.state)]
    /\ UNCHANGED <<fsm_cache, last, threads, nlp, remote>>

\* the state of the FSM the handling holds is written to the store
\* (UPDATE sessions SET fsm_state = ? WHERE session_id = ?)
UpdateSessionState(k) ==
    /\ session_cache.callers[k] # NoCaller
    /\ LET held == session_cache.callers[k]
       IN  /\ held.session_id \in DOMAIN session_cache.db
           /\ session_cache' =
                  [session_cache EXCEPT
                      !.db[held.session_id] =
                          session_cache.heap[held.session].state]
    /\ UNCHANGED <<fsm_cache, last, threads, nlp, remote>>

\* the handling returns
EndCall(k) ==
    /\ session_cache.callers[k] # NoCaller
    /\ session_cache' = [session_cache EXCEPT !.callers[k] = NoCaller]
    /\ UNCHANGED <<fsm_cache, last, threads, nlp, remote>>

NextSession ==
    \/ Tick
    \/ \E k \in Callers, session_id \in SessionIds : BeginCall(k, session_id)
    \/ \E k \in Callers : CallAnswer(k)
    \/ \E k \in Callers : UpdateSessionState(k)
    \/ \E k \in Callers : EndCall(k)

SpecSession == InitSession /\ [][NextSession]_vars

----------------------------------------------------------------------------
(* nlp: the classifiers route_message calls, one call per step.            *)
(* Confidences are in tenths: 3 is 0.3.                                    *)

Texts == {"", "   ", "My family", "I feel good", "sad and worried"}

\* str.strip()
strip(text) == IF text = "   " THEN "" ELSE text

\* Python's `not text`
Falsy(text) == text = ""

\* threshold of RoBERTaZeroShotClassifier.classify, in tenths
threshold == 3

Confidences == {0, 2, 3, 9}

\* keys of INTENT_TEMPLATES (of the twelve that are scored, three)
BestIntents == {"strengths", "affirmative", "negative"}

Min(a, b) == IF a < b THEN a ELSE b

\* a field the returned value does not carry
Absent == "<absent>"

\* a returned dict with label, confidence and method
Result(label, confidence, method) ==
    [label |-> label, has_confidence |-> TRUE, confidence |-> confidence,
     method |-> method]

\* a returned (label, confidence) tuple
Tuple2(pair) == Result(pair[1], pair[2], Absent)

\* a returned bare bool
Bool(b) ==
    [label |-> Str(b), has_confidence |-> FALSE, confidence |-> 0,
     method |-> Absent]

\* what a tier member does when called: raise, or return label and confidence
Raises == [raised |-> TRUE, label |-> "", confidence |-> 0]

Returns(pair) == [raised |-> FALSE, label |-> pair[1], confidence |-> pair[2]]

\* what a call of a classifier comes to: the value returned (or the
\* exception leaving it), and the members and matchers run on the way
Classified(result, invoked) ==
    [raised |-> FALSE, result |-> result, invoked |-> invoked]

Propagated(invoked) ==
    [raised |-> TRUE, result |-> Result("", 0, ""), invoked |-> invoked]

\* roberta: whether the model is loaded, and the best label and its
\* confidence after context boosting
classify(roberta, text) ==
    IF ~roberta.available \/ Falsy(strip(text)) THEN <<"unclear", 0>>
    ELSE IF roberta.confidence < threshold
         THEN <<"unclear", roberta.confidence>>
         ELSE <<roberta.best_intent, roberta.confidence>>

_try_roberta_classify(roberta, text) ==
    IF ~roberta.available THEN Raises ELSE Returns(classify(roberta, text))

\* rule_based: whether fallbacks.rule_based_intent can be imported, and what
\* its classify_intent_rule_based returns
_try_rule_classify(rule_based, text) ==
    IF ~rule_based.importable THEN Raises
    ELSE Returns(<<rule_based.label, rule_based.confidence>>)

intent_mapping(label) ==
    IF label = "affirmative" THEN "affirmation"
    ELSE IF label = "negative" THEN "negation"
    ELSE label

\* variant: the members are called without try/except
classify_intent_unguarded(text, roberta, rule_based) ==
    IF Falsy(text) \/ Falsy(strip(text))
    THEN Classified(Result("unclear", 0, "empty_input"), <<>>)
    ELSE LET r1 == _try_roberta_classify(roberta, text)
         IN  IF ~r1.raised
             THEN Classified(Result(intent_mapping(r1.label), r1.confidence,
                                    "roberta_zero_shot"),
                             <<"roberta_zero_shot">>)
             ELSE Propagated(<<"roberta_zero_shot">>)

\* variant: every member is called and the more confident result wins
classify_intent_best_of_all(text, roberta, rule_based) ==
    IF Falsy(text) \/ Falsy(strip(text))
    THEN Classified(Result("unclear", 0, "empty_input"), <<>>)
    ELSE LET r1 == _try_roberta_classify(roberta, text)
             r2 == _try_rule_classify(rule_based, text)
             both == <<"roberta_zero_shot", "rule_based">>
         IN  IF ~r1.raised /\ (r2.raised \/ r2.confidence <= r1.confidence)
             THEN Classified(Result(intent_mapping(r1.label), r1.confidence,
                                    "roberta_zero_shot"), both)
             ELSE IF ~r2.raised
             THEN Classified(Result(intent_mapping(r2.label), r2.confidence,
                                    "rule_based"), both)
             ELSE Classified(Result("unclear", 0, "all_failed"), both)

classify_intent(text, roberta, rule_based) ==
    IF Falsy(text) \/ Falsy(strip(text))
    THEN Classified(Result("unclear", 0, "empty_input"), <<>>)
    ELSE LET r1 == _try_roberta_classify(roberta, text)
             r2 == _try_rule_classify(rule_based, text)
         IN  IF ~r1.raised
             THEN Classified(Result(intent_mapping(r1.label), r1.confidence,
                                    "roberta_zero_shot"),
                             <<"roberta_zero_shot">>)
             ELSE IF ~r2.raised
             THEN Classified(Result(intent_mapping(r2.label), r2.confidence,
                                    "rule_based"),
                             <<"roberta_zero_shot", "rule_based">>)
             ELSE Classified(Result("unclear", 0, "all_failed"),
                             <<"roberta_zero_shot", "rule_based">>)

SentimentLabels == {"negative", "neutral", "positive"}

\* how many of positive_keywords / negative_keywords occur in the text
positive_count(text) == IF text = "I feel good" THEN 1 ELSE 0

negative_count(text) == IF text = "sad and worried" THEN 2 ELSE 0

fallback_keyword_sentiment(text) ==
    IF Falsy(text) THEN <<"neutral", 5>>
    ELSE IF positive_count(text) > negative_count(text)
         THEN <<"positive", Min(positive_count(text) * 3, 10)>>
    ELSE IF negative_count(text) > positive_count(text)
         THEN <<"negative", Min(negative_count(text) * 3, 10)>>
    ELSE <<"neutral", 5>>

preprocess_text(text) ==
    IF Falsy(text) \/ Falsy(strip(text)) THEN "" ELSE strip(text)

\* model: whether Twitter-RoBERTa is loaded, whether inference raises, and
\* the label and confidence it predicts
analyze(model, text) ==
    IF ~model.loaded
    THEN Classified(Tuple2(fallback_keyword_sentiment(text)), <<"keyword">>)
    ELSE IF Falsy(preprocess_text(text))
    THEN Classified(Tuple2(<<"neutral", 5>>), <<>>)
    ELSE IF model.raises
    THEN Classified(Tuple2(fallback_keyword_sentiment(text)),
                    <<"twitter_roberta", "keyword">>)
    ELSE Classified(Tuple2(<<model.label, model.confidence>>),
                    <<"twitter_roberta">>)

analyze_sentiment(text, model) == analyze(model, text)

\* variant of the risk check: the three matchers run first, the
\* false-positive phrases are looked up only when none of them fires
contains_risk_allow_list_last(text, matches) ==
    IF Falsy(text) THEN Classified(Bool(FALSE), <<>>)
    ELSE IF matches.exact
    THEN Classified(Bool(TRUE), <<"_check_exact_phrases">>)
    ELSE IF matches.fuzzy
    THEN Classified(Bool(TRUE),
                    <<"_check_exact_phrases", "_check_fuzzy_matches">>)
    ELSE IF matches.critical
    THEN Classified(Bool(TRUE),
                    <<"_check_exact_phrases", "_check_fuzzy_matches",
                      "_check_critical_words">>)
    ELSE Classified(Bool(FALSE),
                    <<"_check_exact_phrases", "_check_fuzzy_matches",
                      "_check_critical_words", "false_positive_phrases">>)

\* contains_risk of risk_detector.py step by step. matches: whether the text
\* holds one of false_positive_phrases, and whether each matcher fires on it
contains_risk_matching(text, matches) ==
    IF Falsy(text) THEN Classified(Bool(FALSE), <<>>)
    ELSE IF matches.innocent
    THEN Classified(Bool(FALSE), <<"false_positive_phrases">>)
    ELSE IF matches.exact
    THEN Classified(Bool(TRUE),
                    <<"false_positive_phrases", "_check_exact_phrases">>)
    ELSE IF matches.fuzzy
    THEN Classified(Bool(TRUE),
                    <<"false_positive_phrases", "_check_exact_phrases",
                      "_check_fuzzy_matches">>)
    ELSE IF matches.critical
    THEN Classified(Bool(TRUE),
                    <<"false_positive_phrases", "_check_exact_phrases",
                      "_check_fuzzy_matches", "_check_critical_words">>)
    ELSE Classified(Bool(FALSE),
                    <<"false_positive_phrases", "_check_exact_phrases",
                      "_check_fuzzy_matches", "_check_critical_words">>)

\* a text without a word in it holds no phrase and fires no matcher
NoMatch == [innocent |-> FALSE, exact |-> FALSE, fuzzy |-> FALSE, critical |-> FALSE]

Matches(text) ==
    IF Falsy(strip(text)) THEN {NoMatch}
    ELSE [innocent : BOOLEAN, exact : BOOLEAN, fuzzy : BOOLEAN, critical : BOOLEAN]

Robertas == [available : BOOLEAN, best_intent : BestIntents, confidence : Confidences]

RuleBaseds == [importable : BOOLEAN, label : {"strengths", "unclear"}, confidence : {2, 9}]

Models == [loaded : BOOLEAN, raises : BOOLEAN, label : SentimentLabels, confidence : {9}]

ClassifyIntent ==
    /\ \E text \in Texts, roberta \in Robertas, rule_based \in RuleBaseds :
           nlp' = [kind |-> "classify_intent", text |-> text,
                   roberta |-> roberta, rule_based |-> rule_based,
                   out |-> classify_intent(text, roberta, rule_based)]
    /\ UNCHANGED <<fsm_cache, last, threads, session_cache, remote>>

AnalyzeSentiment ==
    /\ \E text \in Texts, model \in Models :
           nlp' = [kind |-> "analyze_sentiment", text |-> text, model |-> model,
                   out |-> analyze_sentiment(text, model)]
    /\ UNCHANGED <<fsm_cache, last, threads, session_cache, remote>>

ContainsRisk ==
    /\ \E text \in Texts : \E matches \in Matches(text) :
           nlp' = [kind |-> "contains_risk", text |-> text, matches |-> matches,
                   out |-> contains_risk_matching(text, matches)]
    /\ UNCHANGED <<fsm_cache, last, threads, session_cache, remote>>

NextClassifiers == ClassifyIntent \/ AnalyzeSentiment \/ ContainsRisk

\* the three classifiers called one after another on any texts
SpecClassifiers == Init /\ [][NextClassifiers]_vars

----------------------------------------------------------------------------
(* primary_fallback: classification by a remote backend, one request at a  *)
(* time. Time is in seconds; a step of RemoteWait is one second in which   *)
(* the backend stays silent.                                               *)

\* LLM_TIMEOUT's default, in seconds
TIMEOUT == 3

\* seconds a silent backend is followed for
MaxWait == 5

Backends == {"intent_openai", "intent_ollama", "sentiment_openai", "sentiment_ollama", "risk_hf"}

RemoteTexts == {"", "My family", "I feel good"}

Tier(backend) ==
    IF backend \in {"intent_openai", "intent_ollama"} THEN "intent"
    ELSE IF backend \in {"sentiment_openai", "sentiment_ollama"} THEN "sentiment"
    ELSE "risk"

\* the request needs LLM_API_KEY / HF_TOKEN
NeedsKey(backend) == backend \in {"intent_openai", "sentiment_openai", "risk_hf"}

\* the timeout argument of the backend's requests.post
post_timeout(backend) ==
    IF backend = "risk_hf" THEN [set |-> FALSE, seconds |-> 0]
    ELSE [set |-> TRUE, seconds |-> TIMEOUT]

\* labels a backend's answer is parsed to (of each tier's labels, two)
ResponseLabels(backend) ==
    IF Tier(backend) = "intent" THEN {"strengths", "unclear"}
    ELSE IF Tier(backend) = "sentiment" THEN {"positive", "negative"}
    ELSE {"risk", "no_risk"}

\* what the tier's function returns when the request fails with `error`
llm_failed(backend, error) ==
    IF Tier(backend) = "intent"
    THEN [label |-> "unclear", method |-> "llm_failed", error |-> error]
    ELSE IF Tier(backend) = "sentiment"
    THEN [label |-> "neutral", method |-> "llm_failed", error |-> error]
    ELSE [label |-> "no_risk", method |-> Absent, error |-> error]

\* what it returns for an empty text, without a request
empty_input(backend) ==
    IF Tier(backend) = "intent"
    THEN [label |-> "unclear", method |-> "empty_input", error |-> Absent]
    ELSE [label |-> "neutral", method |-> "empty_input", error |-> Absent]

\* what it returns when the backend answers
llm_answer(backend, label) ==
    [label |-> label,
     method |-> IF Tier(backend) = "risk" THEN Absent
                ELSE IF backend \in {"intent_ollama", "sentiment_ollama"}
                     THEN "llm_ollama" ELSE "llm_openai",
     error |-> Absent]

Returned(backend, text, elapsed, result) ==
    [phase |-> "returned", backend |-> backend, text |-> text,
     elapsed |-> elapsed, result |-> result]

\* classify_intent_llm / analyze_sentiment_llm / detect_risk_fallback is
\* called: it returns at once or posts the request
RemoteCall ==
    /\ remote.phase \in {"idle", "returned"}
    /\ \E backend \in Backends, text \in RemoteTexts, has_key \in BOOLEAN :
           remote' =
               IF Tier(backend) # "risk" /\ (Falsy(text) \/ Falsy(strip(text)))
               THEN Returned(backend, text, 0, empty_input(backend))
               ELSE IF NeedsKey(backend) /\ ~has_key
               THEN Returned(backend, text, 0, llm_failed(backend, "no key"))
               ELSE [phase |-> "waiting", backend |-> backend, text |-> text,
                     elapsed |-> 0, result |-> llm_failed(backend, Absent)]
    /\ UNCHANGED <<fsm_cache, last, threads, session_cache, nlp>>

\* requests.post has raised Timeout by now
TimedOut ==
    /\ post_timeout(remote.backend).set
    /\ remote.elapsed >= post_timeout(remote.backend).seconds

\* another second without an answer
RemoteWait ==
    /\ remote.phase = "waiting"
    /\ ~TimedOut
    /\ remote.elapsed < MaxWait
    /\ remote' = [remote EXCEPT !.elapsed = @ + 1]
    /\ UNCHANGED <<fsm_cache, last, threads, session_cache, nlp>>

\* the backend answers
RemoteRespond ==
    /\ remote.phase = "waiting"
    /\ ~TimedOut
    /\ \E label \in ResponseLabels(remote.backend) :
           remote' = Returned(remote.backend, remote.text, remote.elapsed,
                              llm_answer(remote.backend, label))
    /\ UNCHANGED <<fsm_cache, last, threads, session_cache, nlp>>

\* requests.exceptions.Timeout is raised and caught
RemoteTimeout ==
    /\ remote.phase = "waiting"
    /\ TimedOut
    /\ remote' = Returned(remote.backend, remote.text, remote.elapsed,
                          llm_failed(remote.backend, "timeout"))
    /\ UNCHANGED <<fsm_cache, last, threads, session_cache, nlp>>

NextRemote == RemoteCall \/ RemoteWait \/ RemoteRespond \/ RemoteTimeout

SpecRemote == Init /\ [][NextRemote]_vars

----------------------------------------------------------------------------
(* Properties *)

\* the step is a call of route_message (last' describes it)
Routed == last'.kind = "route"

RiskRouted == Routed /\ contains_risk(last'.message)

\* the FSM the routed session has when the call starts (a new session's is
\* created at welcome by the call)
PreFsm == get_or_create_fsm(fsm_cache, last'.session_id)[last'.session_id]

PostFsm == fsm_cache'[last'.session_id]

\* C1: a message the risk check flags is answered with the fixed
\* crisis-resources message, no intent or sentiment classification runs for
\* it, and a risk_triggered analytics event is recorded, at every step
C1_RiskShortCircuit ==
    (last.kind = "route" /\ contains_risk(last.message)) =>
        /\ last.out.reply = get_crisis_resources
        /\ last.out.risk_detected
        /\ ~last.out.intent_called
        /\ ~last.out.sentiment_called
        /\ "risk_triggered" \in last.out.events

C1_Witness ==
    /\ last.kind = "route"
    /\ contains_risk(last.message)
    /\ last.session_id \in DOMAIN fsm_cache
    /\ fsm_cache[last.session_id].state = "strengths"
    /\ last.out.reply = get_crisis_resources

\* C2: a message the risk check flags leaves the cache of FSMs (state, saved
\* responses, attempt counters of every session) exactly as it was
C2_RiskLeavesSessionUntouched ==
    [][RiskRouted => fsm_cache' = fsm_cache]_vars

C2_Witness ==
    /\ last.kind = "route"
    /\ contains_risk(last.message)
    /\ last.session_id \in DOMAIN fsm_cache
    /\ fsm_cache[last.session_id].state = "support_people"
    /\ fsm_cache[last.session_id].attempts["support_people"] = 1

\* the outcome the call would have with every collaborator answering
OutcomeWhenSinkSucceeds(sentiment) ==
    route_message(fsm_cache, last'.session_id, last'.message, last'.intent,
                  sentiment, "none")

\* C3: when save_analytics_event raises, the reply and the resulting FSMs are
\* the ones of the same call with a sink that succeeds
C3_SinkFailureChangesNothing ==
    [][(Routed /\ last'.fail = "analytics") =>
          \E sentiment \in Sentiments :
              /\ last'.out.reply = OutcomeWhenSinkSucceeds(sentiment).reply
              /\ fsm_cache' = OutcomeWhenSinkSucceeds(sentiment).cache]_vars

\* C4: every step leaves each session's fsm_state where it is or moves it to
\* the immediate successor in the state order, and a trigger with no edge from
\* the current state changes nothing and raises nothing
C4_StepOrder ==
    \A s \in Sessions :
        \/ StateOf(fsm_cache', s) = StateOf(fsm_cache, s)
        \/ Pos(StateOf(fsm_cache', s)) = Pos(StateOf(fsm_cache, s)) + 1

C4_InvalidTriggerIsNoOp ==
    (last'.kind = "trigger" /\ ~HasEdge(last'.message, PreFsm.state)) =>
        /\ fsm_cache' = fsm_cache
        /\ last'.out.errors = {}

NonRiskRouted == Routed /\ ~contains_risk(last'.message) /\ last'.fail = "none"

UnclearAt(step) ==
    NonRiskRouted /\ PreFsm.state = step /\ last'.intent = "unclear"

\* C5: at support_people the first unclear message gets a clarify reply
\* (state kept, count 1), the second an offer-choice reply (state kept,
\* count 2), the third a transition reply with the state moved to strengths
\* and the support_people counter back at 0
C5_ThreeStepFallback ==
    [][UnclearAt("support_people") =>
          /\ PreFsm.attempts["support_people"] = 0 =>
                 /\ last'.out.reply = <<"support_people", "clarify">>
                 /\ PostFsm.state = "support_people"
                 /\ PostFsm.attempts["support_people"] = 1
          /\ PreFsm.attempts["support_people"] = 1 =>
                 /\ last'.out.reply = <<"support_people", "offer_choice">>
                 /\ PostFsm.state = "support_people"
                 /\ PostFsm.attempts["support_people"] = 2
          /\ PreFsm.attempts["support_people"] = 2 =>
                 /\ last'.out.response_source = "support_people_force_advance"
                 /\ PostFsm.state = "strengths"
                 /\ PostFsm.attempts["support_people"] = 0]_vars

\* C6: every attempt counter is non-negative; a step's counter goes back to 0
\* when the FSM leaves the step and only then, so the counters of the steps
\* other than the current one are 0; and a counter that grows leaves the
\* other counters alone
C6_CountersNonNegative ==
    \A s \in DOMAIN fsm_cache' : \A q \in QuestionSteps :
        /\ fsm_cache'[s].attempts[q] >= 0
        /\ q # fsm_cache'[s].state => fsm_cache'[s].attempts[q] = 0

C6_ResetExactlyOnLeaving ==
    \A s \in DOMAIN fsm_cache : \A q \in QuestionSteps :
        LET left == fsm_cache[s].state = q /\ fsm_cache'[s].state # q
            reset == fsm_cache[s].attempts[q] > 0 /\ fsm_cache'[s].attempts[q] = 0
        IN  /\ left => fsm_cache'[s].attempts[q] = 0
            /\ reset => left

C6_IncrementIsLocal ==
    \A s \in DOMAIN fsm_cache : \A q \in QuestionSteps :
        fsm_cache'[s].attempts[q] > fsm_cache[s].attempts[q] =>
            /\ q = fsm_cache[s].state
            /\ \A p \in QuestionSteps \ {q} :
                   fsm_cache'[s].attempts[p] = fsm_cache[s].attempts[p]

C6_AttemptCounters ==
    [][C6_CountersNonNegative /\ C6_ResetExactlyOnLeaving /\ C6_IncrementIsLocal]_vars

\* the progressive-fallback policy forces the advance on this message
ForcedAdvance ==
    last'.intent = "unclear" /\ should_force_advance(increment_attempt(PreFsm))

\* C7: at a question step the FSM advances only on a message whose intent
\* label is the one expected at the step, or on a forced advance
C7_AdvanceOnlyOnExpectedLabel ==
    [][(NonRiskRouted /\ PreFsm.state \in QuestionSteps
          /\ PostFsm.state # PreFsm.state) =>
              \/ last'.intent = PreFsm.state
              \/ ForcedAdvance]_vars

\* C8: a session never receives three non-risk messages in a row that all
\* leave it at the same non-terminal step
C8_BoundedTurnsPerStep ==
    (last.kind = "route" /\ last.session_id \in DOMAIN fsm_cache
       /\ fsm_cache[last.session_id].state # "llm_conversation") =>
           last.streak < 3

\* C9: a message that answers the goals step, or on which the policy forces
\* the advance, takes the session on from goals (towards llm_conversation)
C9_GoalsLeadsOn ==
    [][(NonRiskRouted /\ PreFsm.state = "goals"
          /\ (last'.intent # "unclear" \/ ForcedAdvance)) =>
              Pos(PostFsm.state) > Pos("goals")]_vars

BothDone == \A t \in Threads : threads.proc[t].pc = "done"

\* the cache after the two calls run one after the other in receipt order
InReceiptOrder ==
    LET first == threads.order[1]
        second == threads.order[2]
        c1 == route_message(threads.start, ConcSession, ThreadMessage(first),
                            threads.proc[first].intent, "positive", "none").cache
    IN  route_message(c1, ConcSession, ThreadMessage(second),
                      threads.proc[second].intent, "positive", "none").cache

\* C10: two calls of route_message in flight for one session leave the
\* session as the same two calls do one after the other in receipt order
C10_SerializedPerSession ==
    BothDone => fsm_cache = InReceiptOrder

NoCallInFlight == \A k \in Callers : session_cache.callers[k] = NoCaller

\* C11: the fsm_state observed for a session id never moves backward in the
\* step order from one message to the next, also when the session's cache
\* entry expired in between
C11_ObservedStateMonotonic ==
    [][NoCallInFlight =>
          \A sid \in DOMAIN session_cache.observed :
              Pos(session_cache'.observed[sid]) >= Pos(session_cache.observed[sid])]_vars

\* C12: while a call holds a session, the cache entry of that session is
\* the object the call holds
C12_NoEvictionInFlight ==
    \A k \in Callers :
        LET held == session_cache.callers[k]
        IN  held # NoCaller =>
                /\ held.session_id \in DOMAIN session_cache._sessions
                /\ session_cache._sessions[held.session_id] = held.session

\* the sessions other than the one the latest call is for
OtherSessions == DOMAIN fsm_cache \ {last'.session_id}

\* C13: routing a message for one session leaves the fsm_state, the saved
\* responses and the attempt counters of every other session as they were,
\* and creates no other session
C13_SessionIsolation ==
    [][Routed =>
          /\ \A other \in OtherSessions :
                 /\ other \in DOMAIN fsm_cache'
                 /\ fsm_cache'[other] = fsm_cache[other]
          /\ DOMAIN fsm_cache' \subseteq DOMAIN fsm_cache \cup {last'.session_id}]_vars

\* a message moved s2 on while s1 is at another step with a saved response
C13_Witness ==
    /\ last.kind = "route" /\ last.session_id = "s2"
    /\ DOMAIN fsm_cache = {"s1", "s2"}
    /\ last.out.fsm_state_before # last.out.fsm_state_after
    /\ fsm_cache["s1"].state = "strengths"
    /\ fsm_cache["s1"].responses["support_people"] # None
    /\ fsm_cache["s2"].state = "support_people"

AtQuestionStep == NonRiskRouted /\ PreFsm.state \in QuestionSteps

\* C14: with the step's attempt counter above 0, an explicit affirmative
\* moves the FSM to the next step and resets the step's counter
C14_AffirmativeAdvances ==
    [][(AtQuestionStep /\ last'.intent = "affirmation"
          /\ PreFsm.attempts[PreFsm.state] > 0) =>
              /\ PostFsm.state = Dest("next_step", PreFsm.state)
              /\ PostFsm.attempts[PreFsm.state] = 0]_vars

\* C15: when a call moves the FSM off a question step, the response stored
\* under that step is the message verbatim after a clear answer and the
\* sentinel "Unclear: <message>" after a forced advance, and no other step's
\* response changes; an unclear message that forces no advance stores nothing
C15_SavedResponses ==
    [][AtQuestionStep =>
          LET q == PreFsm.state IN
          /\ PostFsm.state # q =>
                 /\ PostFsm.responses[q] =
                        IF last'.intent # "unclear" THEN Verbatim(last'.message)
                        ELSE Unclear(last'.message)
                 /\ \A p \in QuestionSteps \ {q} :
                        PostFsm.responses[p] = PreFsm.responses[p]
          /\ (last'.intent = "unclear" /\ ~ForcedAdvance) =>
                 PostFsm.responses = PreFsm.responses]_vars

\* a forced advance has stored the sentinel under the step left, after an
\* earlier step was answered verbatim
C15_Witness ==
    /\ last.kind = "route" /\ last.intent = "unclear"
    /\ last.out.fsm_state_before = "strengths"
    /\ last.out.fsm_state_after = "worries"
    /\ fsm_cache[last.session_id].responses["strengths"] = Unclear(last.message)
    /\ fsm_cache[last.session_id].responses["support_people"] = Verbatim("My family")

\* C17: every non-risk message at welcome moves the FSM to support_people,
\* stores no response and counts no attempt
C17_WelcomeAlwaysAdvances ==
    [][(NonRiskRouted /\ PreFsm.state = "welcome") =>
          /\ PostFsm.state = "support_people"
          /\ PostFsm.responses = PreFsm.responses
          /\ PostFsm.attempts = PreFsm.attempts]_vars

\* the session of the latest call was in the terminal state before the call
RoutedInLlmConversation ==
    /\ Routed
    /\ last'.session_id \in DOMAIN fsm_cache
    /\ fsm_cache[last'.session_id].state = "llm_conversation"

\* C18: a call for a session in llm_conversation runs neither classifier and
\* leaves the session's state, responses and attempt counters as they were
C18_LlmBranchLeavesFsm ==
    [][RoutedInLlmConversation =>
          /\ ~last'.out.intent_called
          /\ ~last'.out.sentiment_called
          /\ fsm_cache' = fsm_cache]_vars

\* a non-risk message was answered on the LLM branch for a session that has
\* a saved response
C18_Witness ==
    /\ last.kind = "route" /\ ~contains_risk(last.message)
    /\ last.out.fsm_state_before = "llm_conversation"
    /\ last.out.response_source = "llm_handoff_ongoing"
    /\ fsm_cache[last.session_id].responses["support_people"] # None

\* update_session_state was called in the latest call
UpdateInvoked == last'.out.updates # <<>>

\* C19: a call invokes update_session_state exactly if the FSM state changed
\* in the call, and every invocation passes the new state
C19_UpdateIffStateChanged ==
    [][Routed =>
          IF contains_risk(last'.message)
          THEN ~UpdateInvoked /\ fsm_cache' = fsm_cache
          ELSE /\ UpdateInvoked <=> PostFsm.state # PreFsm.state
               /\ \A i \in DOMAIN last'.out.updates :
                      last'.out.updates[i] = PostFsm.state]_vars

\* a call moved the session from support_people to strengths and reported
\* strengths to the store
C19_Witness ==
    /\ last.kind = "route"
    /\ last.out.fsm_state_before = "support_people"
    /\ last.out.fsm_state_after = "strengths"
    /\ last.out.updates # <<>>
    /\ \A i \in DOMAIN last.out.updates : last.out.updates[i] = "strengths"

\* C20: for the same message, intent and session state, the cache after the
\* call is the same whatever the sentiment classifier returned
C20_SentimentNeverDecides ==
    [][Routed =>
          \A sentiment \in Sentiments :
              route_message(fsm_cache, last'.session_id, last'.message,
                            last'.intent, sentiment, last'.fail).cache = fsm_cache']_vars

\* a message of a user in a negative mood moved the session on
C20_Witness ==
    /\ last.kind = "route"
    /\ last.out.fsm_state_before = "welcome"
    /\ last.out.fsm_state_after = "support_people"
    /\ last.out.reply = <<"welcome", "ready_response", "negative">>

\* a classifier raised while the latest call was on the FSM branch
ClassifierFailed ==
    Routed /\ last'.fail = "nlp" /\ last'.out.intent_called

\* C21: when a classifier fails while a message is routed, the call ends
\* outside the catch-all path with the clarifying re-prompt as its reply, and
\* the session is as before
C21_ClassifierFailureDegrades ==
    [][ClassifierFailed =>
          /\ last'.out.reply = <<"fallback", "clarification">>
          /\ last'.out.errors = {"nlp_pipeline_error"}
          /\ PostFsm = PreFsm]_vars

\* a classifier failed on a message for a session at strengths
C21_Witness ==
    /\ last.kind = "route" /\ last.fail = "nlp"
    /\ last.out.fsm_state_before = "strengths"
    /\ last.out.reply = <<"fallback", "clarification">>

\* the latest call ended in route_message's catch-all `except`
\* C28: can_advance returns False in llm_conversation and True in every other
\* state, and the call leaves the FSM's state, responses and attempts as they
\* were
C28_CanAdvanceTerminalOnly ==
    [][last'.kind = "can_advance" =>
          /\ last'.message = Str(PreFsm.state # "llm_conversation")
          /\ PostFsm = PreFsm
          /\ fsm_cache' = fsm_cache]_vars

C28_Witness ==
    /\ last.kind = "can_advance"
    /\ last.message = "False"
    /\ fsm_cache[last.session_id].state = "llm_conversation"
    /\ fsm_cache[last.session_id].responses["support_people"] = Verbatim("My family")

\* caller k's handling starts in this step: get_session looks the id up
BeginsCall(k) ==
    /\ session_cache.callers[k] = NoCaller
    /\ session_cache'.callers[k] # NoCaller

\* the cached entry of sid was last accessed less than ttl ago
Live(sid) ==
    /\ sid \in DOMAIN session_cache._sessions
    /\ session_cache.now - session_cache._last_access[sid] < ttl

\* the cached entry of sid was last accessed ttl ago or longer
Expired(sid) ==
    /\ sid \in DOMAIN session_cache._sessions
    /\ session_cache.now - session_cache._last_access[sid] >= ttl

C29_Lookup(k) ==
    LET sid == session_cache'.callers[k].session_id
        got == session_cache'.callers[k].session
    IN  /\ Live(sid) => /\ got = session_cache._sessions[sid]
                         /\ session_cache'._sessions[sid] = got
        /\ Expired(sid) => /\ got # session_cache._sessions[sid]
                            /\ got = Len(session_cache.heap) + 1
        /\ session_cache'._last_access[sid] = session_cache.now

EndedInCatchAll == Routed /\ "router_fatal_error" \in last'.out.errors

\* C30: a call that ends in the catch-all error path leaves the session's
\* state, responses and attempt counters as they were before the call
C30_CatchAllLeavesSession ==
    [][EndedInCatchAll => PostFsm = PreFsm]_vars

\* classify_intent was called on a text with something in it
IntentClassified == nlp.kind = "classify_intent" /\ ~Falsy(strip(nlp.text))

C23_LowConfidenceFallsThrough ==
    (IntentClassified /\ nlp.roberta.available
                      /\ nlp.roberta.confidence < threshold) =>
        nlp.out.invoked = <<"roberta_zero_shot", "rule_based">>

\* the zero-shot member returns a result at or above the threshold
FirstMemberConfident ==
    /\ IntentClassified
    /\ nlp.roberta.available
    /\ nlp.roberta.confidence >= threshold

\* C24: a result of the zero-shot member at or above the threshold is
\* returned with its confidence, its label renamed by intent_mapping and the
\* method "roberta_zero_shot", and the rule-based member is not called
C24_ShortCircuitWithMappedLabel ==
    FirstMemberConfident =>
        /\ nlp.out.result = Result(intent_mapping(nlp.roberta.best_intent),
                                   nlp.roberta.confidence, "roberta_zero_shot")
        /\ nlp.out.invoked = <<"roberta_zero_shot">>

\* C24 as stated: the label comes back as the member gave it
C24_ShortCircuitVerbatim ==
    FirstMemberConfident =>
        /\ nlp.out.result = Result(nlp.roberta.best_intent,
                                   nlp.roberta.confidence, "roberta_zero_shot")
        /\ nlp.out.invoked = <<"roberta_zero_shot">>

C24_Witness ==
    /\ FirstMemberConfident
    /\ nlp.roberta.best_intent = "affirmative"
    /\ nlp.roberta.confidence = threshold
    /\ nlp.rule_based = [importable |-> TRUE, label |-> "strengths", confidence |-> 9]
    /\ nlp.out.result.label = "affirmation"

DefaultLabel(kind) == IF kind = "contains_risk" THEN "no_risk" ELSE "unclear"

\* C25: a classifier called on an empty or whitespace-only text returns its
\* default label with confidence 0 and method "empty_input" and runs none of
\* its members
C25_EmptyInputRejected ==
    (nlp.kind # "none" /\ Falsy(strip(nlp.text))) =>
        /\ nlp.out.result = Result(DefaultLabel(nlp.kind), 0, "empty_input")
        /\ nlp.out.invoked = <<>>

\* C26: a request to a remote backend never waits longer than the timeout
C26_RemoteCallsTimeBounded ==
    remote.phase = "waiting" => remote.elapsed <= TIMEOUT

\* contains_risk was called on a text that is not empty
RiskChecked == nlp.kind = "contains_risk" /\ ~Falsy(nlp.text)

\* C27: the false-positive phrases are looked up first; a text holding one
\* is no risk and no matcher runs on it; any other text is a risk exactly
\* when the exact, the fuzzy or the critical-word matcher fires
C27_AllowListFirst ==
    RiskChecked =>
        /\ nlp.out.invoked[1] = "false_positive_phrases"
        /\ nlp.matches.innocent =>
              /\ nlp.out.result = Bool(FALSE)
              /\ nlp.out.invoked = <<"false_positive_phrases">>
        /\ ~nlp.matches.innocent =>
              (nlp.out.result = Bool(TRUE)
                  <=> (nlp.matches.exact \/ nlp.matches.fuzzy
                                         \/ nlp.matches.critical))

C27_Witness ==
    /\ RiskChecked
    /\ nlp.matches.innocent
    /\ nlp.matches.exact
    /\ nlp.out.result = Bool(FALSE)
    /\ nlp.out.invoked = <<"false_positive_phrases">>

====
